---- MODULE Spec2Model ----
(***************************************************************************)
(* Weekly threat-report builder: the word-stream parser, the incident      *)
(* aggregator and table builder (pdf_to_excel_access.py) and the two       *)
(* consumers of the tables (app.py, ppt_builder.py).                       *)
(*                                                                         *)
(* A Python str is modelled as a sequence of characters; a character is a  *)
(* one-character string, except the non-ASCII characters, which carry the  *)
(* names below.                                                            *)
(***************************************************************************)
EXTENDS Integers, Sequences, FiniteSets, TLC

\* ------------------------------------------------------------------------
\* Characters
\* ------------------------------------------------------------------------
BULLET   == "BULLET"     \* U+2022, the bullet marker
ENDASH   == "ENDASH"     \* U+2013
NL       == "NL"         \* U+000A, "\n"
LOWQUOTE == "LOWQUOTE"   \* U+201A  } the three characters of the marker
ADIAER   == "ADIAER"     \* U+00C4  } literal written in app.py
CENT     == "CENT"       \* U+00A2  }

Lowers == <<"a", "b", "c", "d", "e", "f", "g", "h", "i", "j", "k", "l", "m", "n", "o", "p", "q", "r", "s", "t", "u", "v", "w", "x", "y", "z">>
Uppers == <<"A", "B", "C", "D", "E", "F", "G", "H", "I", "J", "K", "L", "M", "N", "O", "P", "Q", "R", "S", "T", "U", "V", "W", "X", "Y", "Z">>
Digits == <<"0", "1", "2", "3", "4", "5", "6", "7", "8", "9">>

\* The characters in code-point order (the order Python compares str by).
CharOrder ==
    <<NL, " ", "!", ",", "-", ".">> \o Digits \o <<"?">> \o Uppers \o <<"_">>
    \o Lowers \o <<CENT, ADIAER, ENDASH, LOWQUOTE, BULLET>>

Range(f) == {f[x] : x \in DOMAIN f}
Alphabet == Range(CharOrder)

OrdOf == [c \in Alphabet |-> CHOOSE i \in DOMAIN CharOrder : CharOrder[i] = c]

\* str.upper() / str.lower() on one character
UpperOf ==
    [c \in Alphabet |->
        IF \E i \in 1..26 : Lowers[i] = c
        THEN Uppers[CHOOSE i \in 1..26 : Lowers[i] = c] ELSE c]
LowerOf ==
    [c \in Alphabet |->
        IF \E i \in 1..26 : Uppers[i] = c
        THEN Lowers[CHOOSE i \in 1..26 : Uppers[i] = c] ELSE c]

\* regex classes \w, \s, \d
WordChars  == Range(Lowers) \cup Range(Uppers) \cup Range(Digits) \cup {"_", ADIAER}
SpaceChars == {" ", NL}
DigitChars == Range(Digits)

\* ------------------------------------------------------------------------
\* str methods
\* ------------------------------------------------------------------------
RECURSIVE Upper(_)
Upper(s) == IF Len(s) = 0 THEN <<>> ELSE <<UpperOf[Head(s)]>> \o Upper(Tail(s))
RECURSIVE Lower(_)
Lower(s) == IF Len(s) = 0 THEN <<>> ELSE <<LowerOf[Head(s)]>> \o Lower(Tail(s))

\* str.capitalize(): first character upper-cased, the rest lower-cased
Capitalize(s) == IF Len(s) = 0 THEN <<>> ELSE <<UpperOf[Head(s)]>> \o Lower(Tail(s))

\* str.isdigit()
IsDigit(s) == Len(s) > 0 /\ \A i \in 1..Len(s) : s[i] \in DigitChars

\* sub occurs in s at position p (1-based)
OccursAt(s, p, sub) ==
    /\ p + Len(sub) - 1 <= Len(s)
    /\ \A k \in 1..Len(sub) : s[p + k - 1] = sub[k]

\* `sub in s`
Contains(s, sub) == \E p \in 1..(Len(s) - Len(sub) + 1) : OccursAt(s, p, sub)

StartsWith(s, sub) == OccursAt(s, 1, sub)

\* str.count(sub): non-overlapping occurrences, left to right (sub non-empty)
RECURSIVE CountFrom(_, _, _)
CountFrom(s, sub, p) ==
    IF p + Len(sub) - 1 > Len(s) THEN 0
    ELSE IF OccursAt(s, p, sub) THEN 1 + CountFrom(s, sub, p + Len(sub))
    ELSE CountFrom(s, sub, p + 1)
Count(s, sub) == CountFrom(s, sub, 1)

\* str.replace(old, new): every non-overlapping occurrence, left to right
RECURSIVE ReplaceFrom(_, _, _, _)
ReplaceFrom(s, old, new, p) ==
    IF p > Len(s) THEN <<>>
    ELSE IF OccursAt(s, p, old) THEN new \o ReplaceFrom(s, old, new, p + Len(old))
    ELSE <<s[p]>> \o ReplaceFrom(s, old, new, p + 1)
Replace(s, old, new) == ReplaceFrom(s, old, new, 1)

\* str.lstrip(chars) / str.rstrip(chars) / str.strip()
RECURSIVE LStripChars(_, _)
LStripChars(s, chars) ==
    IF Len(s) > 0 /\ s[1] \in chars THEN LStripChars(Tail(s), chars) ELSE s
RECURSIVE RStripChars(_, _)
RStripChars(s, chars) ==
    IF Len(s) > 0 /\ s[Len(s)] \in chars
    THEN RStripChars(SubSeq(s, 1, Len(s) - 1), chars) ELSE s
Strip(s) == RStripChars(LStripChars(s, SpaceChars), SpaceChars)

\* sep.join(parts)
RECURSIVE Join(_, _)
Join(sep, parts) ==
    IF Len(parts) = 0 THEN <<>>
    ELSE IF Len(parts) = 1 THEN parts[1]
    ELSE parts[1] \o sep \o Join(sep, Tail(parts))

\* str.split(sep) for a one-character separator: always at least one piece
RECURSIVE SplitFrom(_, _, _, _)
SplitFrom(s, sep, p, cur) ==
    IF p > Len(s) THEN <<cur>>
    ELSE IF s[p] = sep THEN <<cur>> \o SplitFrom(s, sep, p + 1, <<>>)
    ELSE SplitFrom(s, sep, p + 1, Append(cur, s[p]))
Split(s, sep) == SplitFrom(s, sep, 1, <<>>)

\* s < t in Python's str order (code points, then length)
RECURSIVE StrLess(_, _)
StrLess(s, t) ==
    IF Len(t) = 0 THEN FALSE
    ELSE IF Len(s) = 0 THEN TRUE
    ELSE IF s[1] = t[1] THEN StrLess(Tail(s), Tail(t))
    ELSE OrdOf[s[1]] < OrdOf[t[1]]

\* sorted(xs) for a sequence of str: insertion into an ascending list
RECURSIVE InsertSorted(_, _)
InsertSorted(x, xs) ==
    IF Len(xs) = 0 THEN <<x>>
    ELSE IF StrLess(x, xs[1]) THEN <<x>> \o xs
    ELSE <<xs[1]>> \o InsertSorted(x, Tail(xs))
\* the list as given, not sorted
Unsorted(xs) == xs

RECURSIVE Sorted(_)
Sorted(xs) ==
    IF Len(xs) = 0 THEN <<>>
    ELSE InsertSorted(xs[Len(xs)], Sorted(SubSeq(xs, 1, Len(xs) - 1)))

\* ------------------------------------------------------------------------
\* Regular expressions used by the program
\* ------------------------------------------------------------------------
\* \b at the gap between s[b] and s[b+1], b in 0..Len(s)
WordBoundary(s, b) ==
    LET before == b >= 1 /\ s[b] \in WordChars
        after  == b < Len(s) /\ s[b + 1] \in WordChars
    IN  before # after

\* the literal lit matches at p, ignoring case (re.I)
MatchAtCI(s, p, lit) ==
    /\ p + Len(lit) - 1 <= Len(s)
    /\ \A k \in 1..Len(lit) : UpperOf[s[p + k - 1]] = UpperOf[lit[k]]

\* r"\b" + re.escape(key) + r"\b" matches at p under re.I
WordMatchAt(s, p, key) ==
    /\ MatchAtCI(s, p, key)
    /\ WordBoundary(s, p - 1)
    /\ WordBoundary(s, p + Len(key) - 1)

\* re.search(r"\b" + re.escape(key) + r"\b", s, re.I)
SearchWord(s, key) == \E p \in 1..(Len(s) - Len(key) + 1) : WordMatchAt(s, p, key)

\* re.sub(rf"\b{re.escape(key)}\b", "", s, flags=re.I)
RECURSIVE RemoveWordFrom(_, _, _)
RemoveWordFrom(s, key, p) ==
    IF p > Len(s) THEN <<>>
    ELSE IF WordMatchAt(s, p, key) THEN RemoveWordFrom(s, key, p + Len(key))
    ELSE <<s[p]>> \o RemoveWordFrom(s, key, p + 1)
RemoveWord(s, key) == RemoveWordFrom(s, key, 1)

\* re.sub(r"\s+", " ", s)
RECURSIVE CollapseSpaceFrom(_, _)
CollapseSpaceFrom(s, p) ==
    IF p > Len(s) THEN <<>>
    ELSE IF s[p] \in SpaceChars
         THEN IF p > 1 /\ s[p - 1] \in SpaceChars
              THEN CollapseSpaceFrom(s, p + 1)
              ELSE <<" ">> \o CollapseSpaceFrom(s, p + 1)
    ELSE <<s[p]>> \o CollapseSpaceFrom(s, p + 1)
CollapseSpace(s) == CollapseSpaceFrom(s, 1)

\* re.sub(r"^[\d\s\.\u2022\-]+", "", s)
NumberingChars == DigitChars \cup SpaceChars \cup {".", BULLET, "-"}
StripNumbering(s) == LStripChars(s, NumberingChars)

\* ------------------------------------------------------------------------
\* pdf_to_excel_access.py: static tables
\* ------------------------------------------------------------------------
\* build_country_database(): (alias, canonical) in dict insertion order.
\* The names of the country dataset are represented by PycountryNames.
PycountryNames ==
    << <<"U", "n", "i", "t", "e", "d", " ", "S", "t", "a", "t", "e", "s">>, <<"U", "n", "i", "t", "e", "d", " ", "K", "i", "n", "g", "d", "o", "m">>, <<"G", "e", "r", "m", "a", "n", "y">>, <<"M", "a", "l", "a", "y", "s", "i", "a">> >>

RECURSIVE SelfPairs(_)
SelfPairs(names) ==
    IF Len(names) = 0 THEN <<>>
    ELSE << <<names[1], names[1]>> >> \o SelfPairs(Tail(names))

COUNTRY_MAP ==
    << << <<"U", "S">>,    <<"U", "n", "i", "t", "e", "d", " ", "S", "t", "a", "t", "e", "s">> >>,
       << <<"U", "S", "A">>,   <<"U", "n", "i", "t", "e", "d", " ", "S", "t", "a", "t", "e", "s">> >>,
       << <<"U", ".", "S", ".">>,  <<"U", "n", "i", "t", "e", "d", " ", "S", "t", "a", "t", "e", "s">> >>,
       << <<"U", "K">>,    <<"U", "n", "i", "t", "e", "d", " ", "K", "i", "n", "g", "d", "o", "m">> >>,
       << <<"U", ".", "K", ".">>,  <<"U", "n", "i", "t", "e", "d", " ", "K", "i", "n", "g", "d", "o", "m">> >>,
       << <<"U", "A", "E">>,   <<"U", "n", "i", "t", "e", "d", " ", "A", "r", "a", "b", " ", "E", "m", "i", "r", "a", "t", "e", "s">> >>,
       << <<"K", "S", "A">>,   <<"S", "a", "u", "d", "i", " ", "A", "r", "a", "b", "i", "a">> >>,
       << <<"M", "Y">>,    <<"M", "a", "l", "a", "y", "s", "i", "a">> >>,
       << <<"M", "e", "x", "i", "c", "a", "n">>,       <<"M", "e", "x", "i", "c", "o">> >>,
       << <<"B", "r", "a", "z", "i", "l", "i", "a", "n">>,     <<"B", "r", "a", "z", "i", "l">> >>,
       << <<"G", "e", "r", "m", "a", "n">>,        <<"G", "e", "r", "m", "a", "n", "y">> >>,
       << <<"C", "o", "l", "o", "m", "b", "i", "a", "n">>,     <<"C", "o", "l", "o", "m", "b", "i", "a">> >>,
       << <<"T", "h", "a", "i">>,          <<"T", "h", "a", "i", "l", "a", "n", "d">> >>,
       << <<"M", "a", "l", "a", "y", "s", "i", "a", "n">>,     <<"M", "a", "l", "a", "y", "s", "i", "a">> >>,
       << <<"I", "n", "d", "o", "n", "e", "s", "i", "a", "n">>,    <<"I", "n", "d", "o", "n", "e", "s", "i", "a">> >>,
       << <<"I", "r", "i", "s", "h">>,         <<"I", "r", "e", "l", "a", "n", "d">> >>,
       << <<"S", "p", "a", "n", "i", "s", "h">>,       <<"S", "p", "a", "i", "n">> >>,
       << <<"P", "o", "r", "t", "u", "g", "u", "e", "s", "e">>,    <<"P", "o", "r", "t", "u", "g", "a", "l">> >>,
       << <<"S", "o", "u", "t", "h", " ", "A", "f", "r", "i", "c", "a", "n">>, <<"S", "o", "u", "t", "h", " ", "A", "f", "r", "i", "c", "a">> >>,
       << <<"M", "o", "r", "o", "c", "c", "a", "n">>,      <<"M", "o", "r", "o", "c", "c", "o">> >>,
       << <<"C", "h", "i", "n", "e", "s", "e">>,       <<"C", "h", "i", "n", "a">> >>,
       << <<"I", "n", "d", "i", "a", "n">>,        <<"I", "n", "d", "i", "a">> >>,
       << <<"S", "o", "u", "t", "h", " ", "K", "o", "r", "e", "a", "n">>,  <<"S", "o", "u", "t", "h", " ", "K", "o", "r", "e", "a">> >>,
       << <<"A", "m", "e", "r", "i", "c", "a", "n">>,      <<"U", "n", "i", "t", "e", "d", " ", "S", "t", "a", "t", "e", "s">> >>,
       << <<"B", "r", "i", "t", "i", "s", "h">>,       <<"U", "n", "i", "t", "e", "d", " ", "K", "i", "n", "g", "d", "o", "m">> >>,
       << <<"V", "i", "e", "t", "n", "a", "m", "e", "s", "e">>,    <<"V", "i", "e", "t", "n", "a", "m">> >>,
       << <<"R", "u", "s", "s", "i", "a", "n">>,       <<"R", "u", "s", "s", "i", "a", "n", " ", "F", "e", "d", "e", "r", "a", "t", "i", "o", "n">> >>,
       << <<"F", "r", "e", "n", "c", "h">>,        <<"F", "r", "a", "n", "c", "e">> >>,
       << <<"I", "s", "r", "a", "e", "l", "i">>,       <<"I", "s", "r", "a", "e", "l">> >>,
       << <<"I", "s", "r", "a", "e", "l", "i", "s">>,      <<"I", "s", "r", "a", "e", "l">> >>,
       << <<"R", "o", "m", "a", "n", "i", "a", "n">>,      <<"R", "o", "m", "a", "n", "i", "a">> >>,
       << <<"C", "a", "n", "a", "d", "i", "a", "n">>,      <<"C", "a", "n", "a", "d", "a">> >>,
       << <<"V", "e", "n", "e", "z", "u", "e", "l", "a">>,     <<"V", "e", "n", "e", "z", "u", "e", "l", "a">> >> >>
    \o SelfPairs(PycountryNames)

SECTION_HEADERS ==
    { <<"A", "C", "C", "E", "S", "S">>, <<"D", "A", "T", "A">>, <<"M", "A", "L", "W", "A", "R", "E">>, <<"O", "T", "H", "E", "R">>, <<"V", "U", "L", "N", "E", "R", "A", "B", "I", "L", "I", "T", "Y">> }

IGNORE_WORDS ==
    { <<"T", "H", "R", "E", "A", "T">>, <<"D", "E", "T", "A", "I", "L">>, <<"A", "C", "T", "I", "V", "I", "T", "Y">>, <<"A", "L", "E", "R", "T", "S">>, <<"R", "E", "L", "A", "Y">>, <<"S", "O", "U", "R", "C", "E">>,
      <<"P", "A", "G", "E">>, <<"V", "E", "R", "S", "I", "O", "N">>, <<"P", "U", "B", "L", "I", "S", "H">> }

\* the keys of the per-document result and of the aggregate store
Categories == { Capitalize(k) : k \in { <<"A", "c", "c", "e", "s", "s">>, <<"D", "a", "t", "a">>, <<"M", "a", "l", "w", "a", "r", "e">>, <<"O", "t", "h", "e", "r">> } }

\* ------------------------------------------------------------------------
\* pdf_to_excel_access.py: helper functions
\* ------------------------------------------------------------------------
extract_countries(text) ==
    { COUNTRY_MAP[k][2] : k \in { j \in DOMAIN COUNTRY_MAP : SearchWord(text, COUNTRY_MAP[j][1]) } }

is_bold(w) ==
    LET font == Lower(w.fontname)
    IN  Contains(font, <<"b", "o", "l", "d">>) \/ Contains(font, <<"b", "l", "a", "c", "k">>) \/ Contains(font, <<"h", "e", "a", "v", "y">>)

sources ==
    << <<"D", "a", "r", "k", "F", "o", "r", "u", "m", "s">>, <<"E", "x", "p", "l", "o", "i", "t">>, <<"R", "A", "M", "P">>, <<"L", "e", "a", "k", "b", "a", "s", "e">>, <<"T", "e", "l", "e", "g", "r", "a", "m">>,
       <<"B", "r", "e", "a", "c", "h", "f", "o", "r", "u", "m", "s">>, <<"X", "S", "S">>, <<"H", "a", "c", "k", "f", "o", "r", "u", "m", "s">>, <<"D", "e", "e", "p", "w", "e", "b", "c", "h", "i", "n", "e", "s", "e">> >>

RECURSIVE RemoveSources(_, _)
RemoveSources(desc, srcs) ==
    IF Len(srcs) = 0 THEN desc
    ELSE RemoveSources(RemoveWord(desc, srcs[1]), Tail(srcs))

\* clean_description appending the full stop whatever the last character
clean_description_always_period(desc) ==
    LET d == Strip(CollapseSpace(RemoveSources(desc, sources)))
    IN  IF Len(d) > 0 THEN d \o <<".">> ELSE d

clean_description(desc) ==
    LET d == Strip(CollapseSpace(RemoveSources(desc, sources)))
    IN  IF Len(d) > 0 /\ d[Len(d)] \notin {".", "!", "?"}
        THEN d \o <<".">>
        ELSE d

\* save_incident without the final test on actor and description
save_incident_unchecked(store, category, actor_parts, desc_words) ==
    IF Len(actor_parts) = 0 THEN store
    ELSE
      LET actor == Strip(Join(<<" ">>, actor_parts))
          raw   == Strip(Replace(Join(<<" ">>, desc_words), <<" ", ".">>, <<".">>))
          desc  == clean_description(StripNumbering(raw))
      IN  [store EXCEPT ![category] = Append(@, [actor |-> actor, desc |-> desc])]

save_incident(store, category, actor_parts, desc_words) ==
    IF Len(actor_parts) = 0 THEN store
    ELSE
      LET actor == Strip(Join(<<" ">>, actor_parts))
          raw   == Strip(Replace(Join(<<" ">>, desc_words), <<" ", ".">>, <<".">>))
          desc  == clean_description(StripNumbering(raw))
      IN  IF Len(actor) > 0 /\ Len(desc) > 0
          THEN [store EXCEPT ![category] =
                   Append(@, [actor |-> actor, desc |-> desc])]
          ELSE store

\* ------------------------------------------------------------------------
\* get_word_stream_incidents: the scan over the words of one document
\* ------------------------------------------------------------------------
EmptyData == [c \in Categories |-> <<>>]

\* start_idx: the index after the first THREAT DETAIL pair (1-based), else 1
HasPairAt(ws, i, first, second) ==
    /\ Upper(ws[i].text) = first
    /\ i + 1 <= Len(ws)
    /\ Upper(ws[i + 1].text) = second

\* the scan without the search for the start marker
StartIdx_from_zero(ws) == 1

StartIdx(ws) ==
    IF \E i \in 1..Len(ws) : HasPairAt(ws, i, <<"T", "H", "R", "E", "A", "T">>, <<"D", "E", "T", "A", "I", "L">>)
    THEN 2 + CHOOSE i \in 1..Len(ws) :
                 /\ HasPairAt(ws, i, <<"T", "H", "R", "E", "A", "T">>, <<"D", "E", "T", "A", "I", "L">>)
                 /\ \A j \in 1..(i - 1) : ~HasPairAt(ws, j, <<"T", "H", "R", "E", "A", "T">>, <<"D", "E", "T", "A", "I", "L">>)
    ELSE 1

\* the break test of the scan loop
AtEndMarker(ws, i) == HasPairAt(ws, i, <<"T", "H", "R", "E", "A", "T">>, <<"A", "C", "T", "I", "V", "I", "T", "Y">>)

IsHeader(w) == is_bold(w) /\ Upper(w.text) \in SECTION_HEADERS
IsActorWord(w) ==
    is_bold(w) /\ Upper(w.text) \notin IGNORE_WORDS /\ ~IsDigit(w.text)

\* ScanWord saving the pending incident under the category of the header
\* just read, and under the initial category at an actor word
ScanWord_switch_first(st, w) ==
    LET upper == Upper(w.text)
        cat   == IF upper = <<"V", "U", "L", "N", "E", "R", "A", "B", "I", "L", "I", "T", "Y">> THEN <<"O", "t", "h", "e", "r">> ELSE Capitalize(upper)
    IN  IF IsHeader(w)
        THEN [category    |-> cat,
              actor_parts |-> <<>>,
              desc_words  |-> <<>>,
              data        |-> IF Len(st.actor_parts) > 0
                              THEN save_incident(st.data, cat,
                                                 st.actor_parts, st.desc_words)
                              ELSE st.data]
        ELSE IF IsActorWord(w)
        THEN IF Len(st.desc_words) > 0
             THEN [category    |-> st.category,
                   actor_parts |-> <<w.text>>,
                   desc_words  |-> <<>>,
                   data        |-> save_incident(st.data, st.category,
                                                 st.actor_parts, st.desc_words)]
             ELSE [st EXCEPT !.actor_parts = Append(@, w.text)]
        ELSE IF Len(st.actor_parts) > 0 /\ w.text \notin { <<BULLET>>, <<ENDASH>> }
             THEN [st EXCEPT !.desc_words = Append(@, w.text)]
             ELSE st

\* ScanWord starting a new actor without saving the pending incident
ScanWord_no_flush(st, w) ==
    LET upper == Upper(w.text)
    IN  IF IsHeader(w)
        THEN [category    |-> IF upper = <<"V", "U", "L", "N", "E", "R", "A", "B", "I", "L", "I", "T", "Y">>
                              THEN <<"O", "t", "h", "e", "r">> ELSE Capitalize(upper),
              actor_parts |-> <<>>,
              desc_words  |-> <<>>,
              data        |-> IF Len(st.actor_parts) > 0
                              THEN save_incident(st.data, st.category,
                                                 st.actor_parts, st.desc_words)
                              ELSE st.data]
        ELSE IF IsActorWord(w)
        THEN IF Len(st.desc_words) > 0
             THEN [category    |-> st.category,
                   actor_parts |-> <<w.text>>,
                   desc_words  |-> <<>>,
                   data        |-> st.data]
             ELSE [st EXCEPT !.actor_parts = Append(@, w.text)]
        ELSE IF Len(st.actor_parts) > 0 /\ w.text \notin { <<BULLET>>, <<ENDASH>> }
             THEN [st EXCEPT !.desc_words = Append(@, w.text)]
             ELSE st

\* ScanWord collecting description words also while no actor is pending
ScanWord_desc_without_actor(st, w) ==
    LET upper == Upper(w.text)
    IN  IF IsHeader(w)
        THEN [category    |-> IF upper = <<"V", "U", "L", "N", "E", "R", "A", "B", "I", "L", "I", "T", "Y">>
                              THEN <<"O", "t", "h", "e", "r">> ELSE Capitalize(upper),
              actor_parts |-> <<>>,
              desc_words  |-> <<>>,
              data        |-> IF Len(st.actor_parts) > 0
                              THEN save_incident(st.data, st.category,
                                                 st.actor_parts, st.desc_words)
                              ELSE st.data]
        ELSE IF IsActorWord(w)
        THEN IF Len(st.desc_words) > 0
             THEN [category    |-> st.category,
                   actor_parts |-> <<w.text>>,
                   desc_words  |-> <<>>,
                   data        |-> save_incident(st.data, st.category,
                                                 st.actor_parts, st.desc_words)]
             ELSE [st EXCEPT !.actor_parts = Append(@, w.text)]
        ELSE IF w.text \notin { <<BULLET>>, <<ENDASH>> }
             THEN [st EXCEPT !.desc_words = Append(@, w.text)]
             ELSE st

\* One iteration of the scan loop on the word w; st holds the loop variables.
ScanWord(st, w) ==
    LET upper == Upper(w.text)
    IN  IF IsHeader(w)
        THEN [category    |-> IF upper = <<"V", "U", "L", "N", "E", "R", "A", "B", "I", "L", "I", "T", "Y">>
                              THEN <<"O", "t", "h", "e", "r">> ELSE Capitalize(upper),
              actor_parts |-> <<>>,
              desc_words  |-> <<>>,
              data        |-> IF Len(st.actor_parts) > 0
                              THEN save_incident(st.data, st.category,
                                                 st.actor_parts, st.desc_words)
                              ELSE st.data]
        ELSE IF IsActorWord(w)
        THEN IF Len(st.desc_words) > 0
             THEN [category    |-> st.category,
                   actor_parts |-> <<w.text>>,
                   desc_words  |-> <<>>,
                   data        |-> save_incident(st.data, st.category,
                                                 st.actor_parts, st.desc_words)]
             ELSE [st EXCEPT !.actor_parts = Append(@, w.text)]
        ELSE IF Len(st.actor_parts) > 0 /\ w.text \notin { <<BULLET>>, <<ENDASH>> }
             THEN [st EXCEPT !.desc_words = Append(@, w.text)]
             ELSE st

\* the flush after the loop
FinalFlush(st) ==
    IF Len(st.actor_parts) > 0
    THEN save_incident(st.data, st.category, st.actor_parts, st.desc_words)
    ELSE st.data

InitScan ==
    [category |-> <<"O", "t", "h", "e", "r">>, actor_parts |-> <<>>, desc_words |-> <<>>,
     data |-> EmptyData]

RECURSIVE ScanFrom(_, _, _)
ScanFrom(st, ws, i) ==
    IF i > Len(ws) \/ AtEndMarker(ws, i) THEN st
    ELSE ScanFrom(ScanWord(st, ws[i]), ws, i + 1)

get_word_stream_incidents(ws) == FinalFlush(ScanFrom(InitScan, ws, StartIdx(ws)))

\* ------------------------------------------------------------------------
\* build_all_tables_from_pdfs: the aggregate store and the fold
\* ------------------------------------------------------------------------
\* dict iteration order of the per-document result (insertion order)
CategoryOrder == << <<"A", "c", "c", "e", "s", "s">>, <<"D", "a", "t", "a">>, <<"M", "a", "l", "w", "a", "r", "e">>, <<"O", "t", "h", "e", "r">> >>

\* storage[cat]["inc"] is an OrderedDict: a sequence of <<actor, descs>> in
\* insertion order; storage[cat]["cty"] is a list of <<cat, dsc>>.
EmptyStorage == [c \in Categories |-> [inc |-> <<>>, cty |-> <<>>]]

HasKey(inc, act) == \E i \in 1..Len(inc) : inc[i][1] = act
KeyIndex(inc, act) == CHOOSE i \in 1..Len(inc) : inc[i][1] = act

\* the loop body without the test `act not in storage[cat]["inc"]`: every
\* incident opens an entry of its own
FoldItem_no_merge(store, cat, itm) ==
    [store EXCEPT ![cat] =
        [inc |-> Append(store[cat].inc, <<itm.actor, <<itm.desc>>>>),
         cty |-> Append(store[cat].cty, <<cat, itm.desc>>)]]

\* the loop body without the append to storage[cat]["cty"]
FoldItem_no_cty(store, cat, itm) ==
    LET act  == itm.actor
        dsc  == itm.desc
        inc0 == store[cat].inc
        inc1 == IF HasKey(inc0, act) THEN inc0 ELSE Append(inc0, <<act, <<>>>>)
        at   == KeyIndex(inc1, act)
        inc2 == [inc1 EXCEPT ![at] = <<act, Append(inc1[at][2], dsc)>>]
    IN  [store EXCEPT ![cat] = [inc |-> inc2, cty |-> store[cat].cty]]

\* the body of the innermost loop
FoldItem(store, cat, itm) ==
    LET act  == itm.actor
        dsc  == itm.desc
        inc0 == store[cat].inc
        inc1 == IF HasKey(inc0, act) THEN inc0 ELSE Append(inc0, <<act, <<>>>>)
        at   == KeyIndex(inc1, act)
        inc2 == [inc1 EXCEPT ![at] = <<act, Append(inc1[at][2], dsc)>>]
    IN  [store EXCEPT ![cat] = [inc |-> inc2,
                                cty |-> Append(store[cat].cty, <<cat, dsc>>)]]

RECURSIVE FoldItems(_, _, _)
FoldItems(store, cat, items) ==
    IF Len(items) = 0 THEN store
    ELSE FoldItems(FoldItem(store, cat, items[1]), cat, Tail(items))

RECURSIVE FoldCategories(_, _, _)
FoldCategories(store, parsed, cats) ==
    IF Len(cats) = 0 THEN store
    ELSE FoldCategories(FoldItems(store, cats[1], parsed[cats[1]]), parsed, Tail(cats))

\* one iteration of `for path in sorted(pdf_paths)` on a parsed document
FoldParsed(store, parsed) == FoldCategories(store, parsed, CategoryOrder)

\* ------------------------------------------------------------------------
\* build_all_tables_from_pdfs: the tables
\* ------------------------------------------------------------------------
\* pd.DataFrame(rows): the columns are the keys of the rows, none when empty
DataFrame(rows) ==
    [columns |-> IF Len(rows) = 0 THEN {} ELSE DOMAIN rows[1], rows |-> rows]

RECURSIVE BulletLines(_)
BulletLines(descs) ==
    IF Len(descs) = 0 THEN <<>>
    ELSE << <<BULLET, " ">> \o descs[1] >> \o BulletLines(Tail(descs))

RECURSIVE UnionCountries(_)
UnionCountries(descs) ==
    IF Len(descs) = 0 THEN {}
    ELSE extract_countries(descs[1]) \cup UnionCountries(Tail(descs))

\* some enumeration of a set, as Python iterates a set in no specified order
RECURSIVE SetToSeq(_)
SetToSeq(S) ==
    IF S = {} THEN <<>>
    ELSE LET x == CHOOSE y \in S : TRUE IN <<x>> \o SetToSeq(S \ {x})

OrUnknown(s) == IF Len(s) = 0 THEN <<"U", "n", "k", "n", "o", "w", "n">> ELSE s

\* build_df with the bullet form for every actor, single descriptions included
build_row_always_bullets(idx, actor, descs, include_country) ==
    LET text == Join(<<NL>>, BulletLines(descs))
        row  == ("No." :> idx) @@ ("Threat Actor" :> actor) @@ ("Incident" :> text)
    IN  IF include_country
        THEN row @@ ("Country" :>
                OrUnknown(Join(<<",", " ">>, Sorted(SetToSeq(UnionCountries(descs))))))
        ELSE row

\* build_df with the countries of the first description only
build_row_first_desc_countries(idx, actor, descs, include_country) ==
    LET text == IF Len(descs) > 1 THEN Join(<<NL>>, BulletLines(descs)) ELSE descs[1]
        row  == ("No." :> idx) @@ ("Threat Actor" :> actor) @@ ("Incident" :> text)
    IN  IF include_country
        THEN row @@ ("Country" :>
                OrUnknown(Join(<<",", " ">>, Sorted(SetToSeq(extract_countries(descs[1]))))))
        ELSE row

build_row(idx, actor, descs, include_country) ==
    LET text == IF Len(descs) > 1 THEN Join(<<NL>>, BulletLines(descs)) ELSE descs[1]
        row  == ("No." :> idx) @@ ("Threat Actor" :> actor) @@ ("Incident" :> text)
    IN  IF include_country
        THEN row @@ ("Country" :>
                OrUnknown(Join(<<",", " ">>, Sorted(SetToSeq(UnionCountries(descs))))))
        ELSE row

RECURSIVE build_rows(_, _, _)
build_rows(inc, idx, include_country) ==
    IF idx > Len(inc) THEN <<>>
    ELSE << build_row(idx, inc[idx][1], inc[idx][2], include_country) >>
         \o build_rows(inc, idx + 1, include_country)

build_df(store, cat, include_country) ==
    DataFrame(build_rows(store[cat].inc, 1, include_country))

IncidentCount(val, marker) ==
    IF Contains(val, marker) THEN Count(val, marker) ELSE 1

RECURSIVE SumIncidents(_, _)
SumIncidents(rows, marker) ==
    IF Len(rows) = 0 THEN 0
    ELSE IncidentCount(rows[1]["Incident"], marker) + SumIncidents(Tail(rows), marker)

count_incidents_from_df(df) ==
    IF "Incident" \notin df.columns THEN 0
    ELSE SumIncidents(df.rows, <<BULLET>>)

\* Counter: a sequence of <<country, n>> in first-insertion order
CounterAdd(counter, c) ==
    IF \E i \in 1..Len(counter) : counter[i][1] = c
    THEN LET at == CHOOSE i \in 1..Len(counter) : counter[i][1] = c
         IN  [counter EXCEPT ![at] = <<c, counter[at][2] + 1>>]
    ELSE Append(counter, <<c, 1>>)

\* `for c in extract_countries(desc)`: the members of found, visited in the
\* order they have in iter (the iteration order of a set is not specified)
RECURSIVE CountFound(_, _, _)
CountFound(counter, found, iter) ==
    IF Len(iter) = 0 THEN counter
    ELSE CountFound(IF iter[1] \in found THEN CounterAdd(counter, iter[1]) ELSE counter,
                    found, Tail(iter))

RECURSIVE CountDescs(_, _, _)
CountDescs(counter, cty, iter) ==
    IF Len(cty) = 0 THEN counter
    ELSE CountDescs(CountFound(counter, extract_countries(cty[1][2]), iter),
                    Tail(cty), iter)

\* the tally run over the flat lists of all four categories
country_counter_all_categories(store, iter) ==
    CountDescs(CountDescs(CountDescs(CountDescs(<<>>,
        store[ <<"A", "c", "c", "e", "s", "s">> ].cty, iter), store[ <<"D", "a", "t", "a">> ].cty, iter),
        store[ <<"M", "a", "l", "w", "a", "r", "e">> ].cty, iter), store[ <<"O", "t", "h", "e", "r">> ].cty, iter)

country_counter(store, iter) ==
    CountDescs(CountDescs(<<>>, store[ <<"A", "c", "c", "e", "s", "s">> ].cty, iter), store[ <<"D", "a", "t", "a">> ].cty, iter)

\* DataFrame.sort_values("Occurrences", ascending=False): rows by
\* descending count, rows of equal count in their given order
RECURSIVE InsertDesc(_, _)
InsertDesc(x, xs) ==
    IF Len(xs) = 0 THEN <<x>>
    ELSE IF x[2] > xs[1][2] THEN <<x>> \o xs
    ELSE <<xs[1]>> \o InsertDesc(x, Tail(xs))
RECURSIVE SortDesc(_)
SortDesc(xs) ==
    IF Len(xs) = 0 THEN <<>>
    ELSE InsertDesc(xs[Len(xs)], SortDesc(SubSeq(xs, 1, Len(xs) - 1)))

\* the six tables returned
build_tables(store, iter) ==
    LET acc == build_df(store, <<"A", "c", "c", "e", "s", "s">>, TRUE)
        dat == build_df(store, <<"D", "a", "t", "a">>, TRUE)
        mal == build_df(store, <<"M", "a", "l", "w", "a", "r", "e">>, FALSE)
        oth == build_df(store, <<"O", "t", "h", "e", "r">>, FALSE)
        access_cnt  == count_incidents_from_df(acc)
        data_cnt    == count_incidents_from_df(dat)
        malware_cnt == count_incidents_from_df(mal)
        other_cnt   == count_incidents_from_df(oth)
    IN  [acc |-> acc, dat |-> dat, mal |-> mal, oth |-> oth,
         tot |-> << [Category |-> "Access Broker", Count |-> access_cnt],
                    [Category |-> "Data Breaches", Count |-> data_cnt],
                    [Category |-> "Malware",       Count |-> malware_cnt],
                    [Category |-> "Other Threats", Count |-> other_cnt],
                    [Category |-> "Total",
                     Count |-> access_cnt + data_cnt + malware_cnt + other_cnt] >>,
         cty |-> SortDesc(country_counter(store, iter))]

\* ------------------------------------------------------------------------
\* app.py: the consumers of the tables
\* ------------------------------------------------------------------------
\* the marker literal as the source file of app.py spells it (three
\* characters, U+201A U+00C4 U+00A2)
APP_MARKER == <<LOWQUOTE, ADIAER, CENT>>

count_incidents(df) ==
    IF "Incident" \notin df.columns THEN 0
    ELSE SumIncidents(df.rows, APP_MARKER)

\* [x.strip() for x in lines if x.strip()]
RECURSIVE StrippedNonEmpty(_)
StrippedNonEmpty(lines) ==
    IF Len(lines) = 0 THEN <<>>
    ELSE (IF Len(Strip(lines[1])) > 0 THEN <<Strip(lines[1])>> ELSE <<>>)
         \o StrippedNonEmpty(Tail(lines))

\* the bullet lines of a cell, marker stripped
RECURSIVE MarkedLines(_, _)
MarkedLines(lines, marker) ==
    IF Len(lines) = 0 THEN <<>>
    ELSE (IF StartsWith(lines[1], marker)
          THEN <<Strip(LStripChars(lines[1], Range(marker)))>> ELSE <<>>)
         \o MarkedLines(Tail(lines), marker)

RECURSIVE NonEmptyOnly(_)
NonEmptyOnly(xs) ==
    IF Len(xs) = 0 THEN <<>>
    ELSE (IF Len(xs[1]) > 0 THEN <<xs[1]>> ELSE <<>>) \o NonEmptyOnly(Tail(xs))

RECURSIVE PairWith(_, _)
PairWith(actor, xs) ==
    IF Len(xs) = 0 THEN <<>>
    ELSE << <<actor, xs[1]>> >> \o PairWith(actor, Tail(xs))

\* the loop body of _pptx_expand_incidents on one row
pptx_expand_row(row) ==
    LET actor   == Strip(row["Threat Actor"])
        cell    == row["Incident"]
        lines   == StrippedNonEmpty(Split(cell, NL))
        bullets == MarkedLines(lines, APP_MARKER)
    IN  IF Len(Strip(cell)) = 0 THEN <<>>
        ELSE IF Len(bullets) > 0 THEN PairWith(actor, NonEmptyOnly(bullets))
        ELSE << <<actor, Strip(cell)>> >>

RECURSIVE pptx_expand_rows(_)
pptx_expand_rows(rows) ==
    IF Len(rows) = 0 THEN <<>>
    ELSE pptx_expand_row(rows[1]) \o pptx_expand_rows(Tail(rows))

_pptx_expand_incidents(df) == pptx_expand_rows(df.rows)

\* ------------------------------------------------------------------------
\* ppt_builder.py
\* ------------------------------------------------------------------------
\* the incidents recovered from one Incident cell
cell_incidents(cell) ==
    LET lines == StrippedNonEmpty(Split(cell, NL))
    IN  IF \E i \in 1..Len(lines) : StartsWith(lines[i], <<BULLET>>)
        THEN MarkedLines(lines, <<BULLET>>)
        ELSE <<Strip(cell)>>

\* grouped.setdefault(actor, []).extend(incidents), grouped in insertion order
Extend(grouped, actor, incidents) ==
    LET g1 == IF HasKey(grouped, actor) THEN grouped ELSE Append(grouped, <<actor, <<>>>>)
        at == KeyIndex(g1, actor)
    IN  [g1 EXCEPT ![at] = <<actor, g1[at][2] \o incidents>>]

RECURSIVE GroupRows(_, _)
GroupRows(grouped, rows) ==
    IF Len(rows) = 0 THEN grouped
    ELSE LET actor == Strip(rows[1]["Threat Actor"])
         IN  GroupRows(IF Len(actor) = 0 THEN grouped
                       ELSE Extend(grouped, actor, cell_incidents(rows[1]["Incident"])),
                       Tail(rows))

RECURSIVE RenderGroups(_)
RenderGroups(grouped) ==
    IF Len(grouped) = 0 THEN <<>>
    ELSE << <<grouped[1][1], Join(<<NL>>, BulletLines(NonEmptyOnly(grouped[1][2])))>> >>
         \o RenderGroups(Tail(grouped))

_expand_incidents(df) == RenderGroups(GroupRows(<<>>, df.rows))

\* ------------------------------------------------------------------------
\* Inputs
\* ------------------------------------------------------------------------
MaxDocs  == 3     \* documents in one run
MaxWords == 3     \* words in one document of a run
MaxScan  == 4     \* words in the document of a single parse

RegularFont == <<"A", "r", "i", "a", "l">>
BoldFont    == <<"A", "r", "i", "a", "l", "-", "B", "o", "l", "d", "M", "T">>
Regular(t) == [text |-> t, fontname |-> RegularFont]
Bold(t)    == [text |-> t, fontname |-> BoldFont]

\* A run draws the words of its documents from one of these vocabularies.
LexBullet  == { Bold( <<"A", "C", "M", "E">> ), Regular( <<"s", "o", "l", "d">> ), Regular( <<"a", BULLET, "b">> ) }
LexOrder   == { Bold( <<"A", "C", "C", "E", "S", "S">> ), Bold( <<"A", "C", "M", "E">> ), Bold( <<"B", "o", "b">> ), Regular( <<"s", "o", "l", "d">> ) }
LexCountry == { Bold( <<"D", "A", "T", "A">> ), Bold( <<"M", "A", "L", "W", "A", "R", "E">> ), Bold( <<"A", "C", "M", "E">> ),
                Regular( <<"U", "S">> ), Regular( <<"G", "e", "r", "m", "a", "n", "y">> ) }
Lexicons   == { LexBullet, LexOrder, LexCountry }

LexParse ==
    { Bold( <<"T", "H", "R", "E", "A", "T">> ), Bold( <<"D", "E", "T", "A", "I", "L">> ), Bold( <<"A", "C", "T", "I", "V", "I", "T", "Y">> ), Bold( <<"A", "C", "C", "E", "S", "S">> ),
      Bold( <<"A", "C", "M", "E">> ), Regular( <<"s", "o", "l", "d">> ), Regular( <<"E", "x", "p", "l", "o", "i", "t">> ), Regular( <<BULLET>> ) }

\* further vocabularies of a single parse: the section headers, and the
\* kinds of bold and regular words an actor name and a description meet
LexSection ==
    { Bold( <<"D", "A", "T", "A">> ), Bold( <<"M", "A", "L", "W", "A", "R", "E">> ), Bold( <<"O", "T", "H", "E", "R">> ), Bold( <<"V", "U", "L", "N", "E", "R", "A", "B", "I", "L", "I", "T", "Y">> ),
      Bold( <<"A", "C", "M", "E">> ), Regular( <<"s", "o", "l", "d">> ) }
LexActor ==
    { Bold( <<"A", "C", "M", "E">> ), Bold( <<"B", "o", "b">> ), Bold( <<"7">> ), Bold( <<"P", "A", "G", "E">> ),
      Regular( <<"s", "o", "l", "d">> ), Regular( <<ENDASH>> ) }
ParseLexicons == { LexParse, LexSection, LexActor }

Streams(lex, n) == UNION { [1..m -> lex] : m \in 0..n }

\* the paths a caller may pass, here in no particular order
PathNames == << <<"r", "9", ".", "p", "d", "f">>, <<"r", "1", "0", ".", "p", "d", "f">>, <<"r", "1", ".", "p", "d", "f">>, <<"r", "2", ".", "p", "d", "f">>, <<"r", "2", "0", ".", "p", "d", "f">> >>
Paths == { PathNames[i] : i \in 1..MaxDocs }
PathLists ==
    { ps \in UNION { [1..m -> Paths] : m \in 1..MaxDocs } :
        \A i, j \in DOMAIN ps : i # j => ps[i] # ps[j] }

\* The incidents of a document in the order the scan saves them (at most one
\* per loop iteration), each with the category it was saved under.
Saved(d1, d2) ==
    IF \E c \in Categories : Len(d2[c]) > Len(d1[c])
    THEN LET c == CHOOSE c \in Categories : Len(d2[c]) > Len(d1[c])
         IN  << [cat |-> c, actor |-> d2[c][Len(d2[c])].actor,
                 desc |-> d2[c][Len(d2[c])].desc] >>
    ELSE <<>>

RECURSIVE SavedFrom(_, _, _)
SavedFrom(st, ws, i) ==
    IF i > Len(ws) \/ AtEndMarker(ws, i) THEN Saved(st.data, FinalFlush(st))
    ELSE Saved(st.data, ScanWord(st, ws[i]).data)
         \o SavedFrom(ScanWord(st, ws[i]), ws, i + 1)

ParseDoc(ws) ==
    [data  |-> get_word_stream_incidents(ws),
     saved |-> SavedFrom(InitScan, ws, StartIdx(ws))]

ParsedBullet  == { ParseDoc(ws) : ws \in Streams(LexBullet, MaxWords) }
ParsedOrder   == { ParseDoc(ws) : ws \in Streams(LexOrder, MaxWords) }
ParsedCountry == { ParseDoc(ws) : ws \in Streams(LexCountry, MaxWords) }
ParsedDocs(lex) ==
    IF lex = LexBullet THEN ParsedBullet
    ELSE IF lex = LexOrder THEN ParsedOrder
    ELSE ParsedCountry

\* the countries of the descriptions that are tallied
CountedCountries(store) ==
    UNION { UnionCountries([i \in 1..Len(store[c].cty) |-> store[c].cty[i][2]]) :
              c \in { <<"A", "c", "c", "e", "s", "s">>, <<"D", "a", "t", "a">> } }

\* the orders in which a set of countries may be iterated
Orders(S) ==
    { o \in [1..Cardinality(S) -> S] : \A i, j \in DOMAIN o : i # j => o[i] # o[j] }

RECURSIVE Stamp(_, _, _)
Stamp(saved, path, pos) ==
    IF Len(saved) = 0 THEN <<>>
    ELSE << [path |-> path, pos |-> pos, cat |-> saved[1].cat,
             actor |-> saved[1].actor, desc |-> saved[1].desc] >>
         \o Stamp(Tail(saved), path, pos + 1)

\* ------------------------------------------------------------------------
\* State
\* ------------------------------------------------------------------------
VARIABLES
    pc,                  \* position of the run
    vocabulary,          \* the vocabulary of the documents of this run
    sorted_paths,        \* sorted(pdf_paths), the list the fold loop iterates
    folded,              \* number of paths the fold loop has completed
    storage,             \* the aggregate store
    history,             \* every incident folded so far: path, position, category
    tables,              \* the tuple returned by build_all_tables_from_pdfs, if any
    status,              \* status_placeholder of the application
    counts,              \* the category-count mapping of main, if computed
    expanded,            \* build_pptx_bytes: the expanded categories, if computed
    weekly,              \* build_weekly_pptx: the expanded categories, if computed
    words,               \* get_word_stream_incidents: the words of the document
    idx,                 \* ... the loop index i (1-based)
    current_category,
    current_actor_parts,
    current_desc_words,
    data,                \* ... the result under construction
    text,                \* argument of a helper applied on its own
    found                \* its result

aggVars   == <<vocabulary, sorted_paths, folded, storage, history, tables, status,
               counts, expanded, weekly>>
parseVars == <<words, idx, current_category, current_actor_parts,
               current_desc_words, data>>
fnVars    == <<text, found>>
vars      == <<pc, aggVars, parseVars, fnVars>>

AggIdle ==
    /\ sorted_paths = <<>>
    /\ folded = 0
    /\ storage = EmptyStorage
    /\ history = <<>>
    /\ tables = {}
    /\ status = "Idle"
    /\ counts = {}
    /\ expanded = {}
    /\ weekly = {}

ParseIdle ==
    /\ words = <<>>
    /\ idx = 1
    /\ current_category = <<"O", "t", "h", "e", "r">>
    /\ current_actor_parts = <<>>
    /\ current_desc_words = <<>>
    /\ data = EmptyData

FnIdle ==
    /\ text = <<>>
    /\ found = {}

\* ------------------------------------------------------------------------
\* A run of the application: main -> build_all_tables_from_pdfs -> consumers
\* ------------------------------------------------------------------------
Init ==
    /\ pc = "idle"
    /\ vocabulary \in Lexicons
    /\ AggIdle
    /\ ParseIdle
    /\ FnIdle

\* main up to the call, and the evaluation of sorted(pdf_paths)
Generate ==
    /\ pc = "idle"
    /\ \E pdf_paths \in PathLists : sorted_paths' = Sorted(pdf_paths)
    /\ status' = "Building analytics tables"
    /\ pc' = "fold"
    /\ UNCHANGED <<vocabulary, folded, storage, history, tables, counts, expanded, weekly>>
    /\ UNCHANGED <<parseVars, fnVars>>

\* one iteration of `for path in sorted(pdf_paths)`
FoldDocument ==
    /\ pc = "fold"
    /\ folded < Len(sorted_paths)
    /\ \E doc \in ParsedDocs(vocabulary) :
          /\ storage' = FoldParsed(storage, doc.data)
          /\ history' = history \o Stamp(doc.saved, sorted_paths[folded + 1], 1)
    /\ folded' = folded + 1
    /\ UNCHANGED <<pc, vocabulary, sorted_paths, tables, status, counts, expanded, weekly>>
    /\ UNCHANGED <<parseVars, fnVars>>

\* a variant that still returns the tables of the documents folded so far
ExtractionFails_partial_tables ==
    /\ pc = "fold"
    /\ folded < Len(sorted_paths)
    /\ pc' = "failed"
    /\ status' = "Error"
    /\ \E iter \in Orders(CountedCountries(storage)) :
          tables' = { build_tables(storage, iter) }
    /\ UNCHANGED <<vocabulary, sorted_paths, folded, storage, history,
                   counts, expanded, weekly>>
    /\ UNCHANGED <<parseVars, fnVars>>

\* pdfplumber fails on the next path: the exception leaves
\* build_all_tables_from_pdfs and main reports it and returns
ExtractionFails ==
    /\ pc = "fold"
    /\ folded < Len(sorted_paths)
    /\ pc' = "failed"
    /\ status' = "Error"
    /\ UNCHANGED <<vocabulary, sorted_paths, folded, storage, history, tables,
                   counts, expanded, weekly>>
    /\ UNCHANGED <<parseVars, fnVars>>

\* the rest of build_all_tables_from_pdfs, after the loop
BuildTables ==
    /\ pc = "fold"
    /\ folded = Len(sorted_paths)
    /\ \E iter \in Orders(CountedCountries(storage)) :
          tables' = { build_tables(storage, iter) }
    /\ pc' = "built"
    /\ UNCHANGED <<vocabulary, sorted_paths, folded, storage, history, status,
                   counts, expanded, weekly>>
    /\ UNCHANGED <<parseVars, fnVars>>

\* main after the call returned: the category-count mapping, then
\* build_pptx_bytes expanding the four category tables
Main ==
    /\ pc = "built"
    /\ LET t == CHOOSE t \in tables : TRUE
       IN  /\ counts' = { ("Access Broker" :> count_incidents(t.acc))
                          @@ ("Data Breaches" :> count_incidents(t.dat))
                          @@ ("Malware" :> count_incidents(t.mal))
                          @@ ("Other Threats" :> count_incidents(t.oth)) }
           /\ expanded' = { ("Access Broker" :> _pptx_expand_incidents(t.acc))
                            @@ ("Data Breaches" :> _pptx_expand_incidents(t.dat))
                            @@ ("Malware" :> _pptx_expand_incidents(t.mal))
                            @@ ("Other Threats" :> _pptx_expand_incidents(t.oth)) }
    /\ status' = "Completed"
    /\ pc' = "done"
    /\ UNCHANGED <<vocabulary, sorted_paths, folded, storage, history, tables, weekly>>
    /\ UNCHANGED <<parseVars, fnVars>>

\* ppt_builder.build_weekly_pptx on the same tables
BuildWeeklyPptx ==
    /\ pc = "done"
    /\ LET t == CHOOSE t \in tables : TRUE
       IN  weekly' = { ("Access Broker" :> _expand_incidents(t.acc))
                       @@ ("Data Breaches" :> _expand_incidents(t.dat))
                       @@ ("Malware" :> _expand_incidents(t.mal))
                       @@ ("Other Threats" :> _expand_incidents(t.oth)) }
    /\ pc' = "briefed"
    /\ UNCHANGED <<vocabulary, sorted_paths, folded, storage, history, tables,
                   status, counts, expanded>>
    /\ UNCHANGED <<parseVars, fnVars>>

Next ==
    \/ Generate
    \/ FoldDocument
    \/ ExtractionFails
    \/ BuildTables
    \/ Main
    \/ BuildWeeklyPptx

Spec == Init /\ [][Next]_vars

\* ------------------------------------------------------------------------
\* One call of get_word_stream_incidents, iteration by iteration
\* ------------------------------------------------------------------------
InitParse ==
    /\ pc = "open"
    /\ vocabulary \in ParseLexicons
    /\ AggIdle
    /\ words \in Streams(vocabulary, MaxScan)
    /\ idx = 1
    /\ current_category = <<"O", "t", "h", "e", "r">>
    /\ current_actor_parts = <<>>
    /\ current_desc_words = <<>>
    /\ data = EmptyData
    /\ FnIdle

ScanState ==
    [category |-> current_category, actor_parts |-> current_actor_parts,
     desc_words |-> current_desc_words, data |-> data]

\* the loop that looks for the start marker
FindStart ==
    /\ pc = "open"
    /\ idx' = StartIdx(words)
    /\ pc' = "scan"
    /\ UNCHANGED <<words, current_category, current_actor_parts, current_desc_words, data>>
    /\ UNCHANGED <<aggVars, fnVars>>

ScanStep(w) ==
    LET st == ScanWord(ScanState, w)
    IN  /\ current_category' = st.category
        /\ current_actor_parts' = st.actor_parts
        /\ current_desc_words' = st.desc_words
        /\ data' = st.data
        /\ idx' = idx + 1
        /\ UNCHANGED <<pc, words>>
        /\ UNCHANGED <<aggVars, fnVars>>

InScan == pc = "scan" /\ idx <= Len(words) /\ ~AtEndMarker(words, idx)

\* an iteration on a section header
ScanHeader ==
    /\ InScan
    /\ IsHeader(words[idx])
    /\ ScanStep(words[idx])

\* an iteration on a bold word that belongs to an actor name
ScanActor ==
    /\ InScan
    /\ ~IsHeader(words[idx])
    /\ IsActorWord(words[idx])
    /\ ScanStep(words[idx])

\* an iteration on any other word
ScanText ==
    /\ InScan
    /\ ~IsHeader(words[idx])
    /\ ~IsActorWord(words[idx])
    /\ ScanStep(words[idx])

\* the loop ends (end marker or last word); the pending incident is flushed
EndScan ==
    /\ pc = "scan"
    /\ IF idx > Len(words) THEN TRUE ELSE AtEndMarker(words, idx)
    /\ data' = FinalFlush(ScanState)
    /\ pc' = "parsed"
    /\ UNCHANGED <<words, idx, current_category, current_actor_parts, current_desc_words>>
    /\ UNCHANGED <<aggVars, fnVars>>

NextParse ==
    \/ FindStart
    \/ ScanHeader
    \/ ScanActor
    \/ ScanText
    \/ EndScan

SpecParse == InitParse /\ [][NextParse]_vars

\* ------------------------------------------------------------------------
\* extract_countries applied on its own
\* ------------------------------------------------------------------------
\* for every alias: the alias alone, in lower case, as a word of a sentence,
\* and as the beginning of a longer word
CountryTexts ==
    UNION { { COUNTRY_MAP[j][1],
              Lower(COUNTRY_MAP[j][1]),
              <<"s", "e", "e", "n", " ", "i", "n", " ">> \o COUNTRY_MAP[j][1] \o <<" ", "t", "o", "d", "a", "y">>,
              COUNTRY_MAP[j][1] \o <<"G", "E">> } : j \in DOMAIN COUNTRY_MAP }

InitCountry ==
    /\ pc = "call"
    /\ vocabulary = {}
    /\ AggIdle
    /\ ParseIdle
    /\ text \in CountryTexts
    /\ found = {}

ExtractCountries ==
    /\ pc = "call"
    /\ found' = extract_countries(text)
    /\ pc' = "returned"
    /\ UNCHANGED <<text, aggVars, parseVars>>

NextCountry == ExtractCountries

SpecCountry == InitCountry /\ [][NextCountry]_vars

\* ------------------------------------------------------------------------
\* clean_description applied on its own, then on its own result
\* ------------------------------------------------------------------------
MaxPieces == 3    \* pieces an argument of clean_description is made of

CleanPieces ==
    { <<"E", "x", "p", "l", "o", "i", "t">>, <<"x", "s", "s">>, <<"R", "A">>, <<"M", "P">>, <<"a">>, <<" ">>, <<NL>>, <<".">>, <<"!">> }

RECURSIVE Concat(_)
Concat(ps) == IF Len(ps) = 0 THEN <<>> ELSE Head(ps) \o Concat(Tail(ps))

CleanTexts == { Concat(ps) : ps \in Streams(CleanPieces, MaxPieces) }

InitClean ==
    /\ pc = "clean"
    /\ vocabulary = {}
    /\ AggIdle
    /\ ParseIdle
    /\ text \in CleanTexts
    /\ found = <<>>

CleanDescription ==
    /\ pc = "clean"
    /\ found' = << clean_description(text) >>
    /\ pc' = "cleaned"
    /\ UNCHANGED <<text, aggVars, parseVars>>

CleanAgain ==
    /\ pc = "cleaned"
    /\ found' = Append(found, clean_description(found[1]))
    /\ pc' = "recleaned"
    /\ UNCHANGED <<text, aggVars, parseVars>>

NextClean ==
    \/ CleanDescription
    \/ CleanAgain

SpecClean == InitClean /\ [][NextClean]_vars

\* ========================================================================
\* Properties
\* ========================================================================
Built == pc \in {"built", "done", "briefed"}
TheTables == CHOOSE t \in tables : TRUE
CategoryTable(t, c) ==
    IF c = <<"A", "c", "c", "e", "s", "s">> THEN t.acc
    ELSE IF c = <<"D", "a", "t", "a">> THEN t.dat
    ELSE IF c = <<"M", "a", "l", "w", "a", "r", "e">> THEN t.mal
    ELSE t.oth
DisplayName(c) ==
    IF c = <<"A", "c", "c", "e", "s", "s">> THEN "Access Broker"
    ELSE IF c = <<"D", "a", "t", "a">> THEN "Data Breaches"
    ELSE IF c = <<"M", "a", "l", "w", "a", "r", "e">> THEN "Malware"
    ELSE "Other Threats"
TotalsCount(t, c) ==
    (CHOOSE r \in Range(t.tot) : r.Category = DisplayName(c)).Count

\* the combined order: documents by path, then position within the document
Precedes(e1, e2) ==
    \/ StrLess(e1.path, e2.path)
    \/ e1.path = e2.path /\ e1.pos < e2.pos

RECURSIVE InsertByKey(_, _)
InsertByKey(e, es) ==
    IF Len(es) = 0 THEN <<e>>
    ELSE IF Precedes(e, es[1]) THEN <<e>> \o es
    ELSE <<es[1]>> \o InsertByKey(e, Tail(es))
RECURSIVE ByKey(_)
ByKey(es) ==
    IF Len(es) = 0 THEN <<>>
    ELSE InsertByKey(es[Len(es)], ByKey(SubSeq(es, 1, Len(es) - 1)))

\* the incidents of category c in the combined order
IncidentsIn(c) == SelectSeq(ByKey(history), LAMBDA e : e.cat = c)

\* the descriptions accumulated for an actor in a category, in that order
RECURSIVE DescsOf(_, _)
DescsOf(es, actor) ==
    IF Len(es) = 0 THEN <<>>
    ELSE (IF es[1].actor = actor THEN <<es[1].desc>> ELSE <<>>) \o DescsOf(Tail(es), actor)

\* the distinct actors in order of first occurrence
RECURSIVE FirstSeen(_, _)
FirstSeen(es, seen) ==
    IF Len(es) = 0 THEN <<>>
    ELSE IF es[1].actor \in seen THEN FirstSeen(Tail(es), seen)
    ELSE <<es[1].actor>> \o FirstSeen(Tail(es), seen \cup {es[1].actor})

\* number of lines of a cell that begin with the bullet, or 1 when none does
BulletLineCount(cell) ==
    LET lines == Split(cell, NL)
        n == Cardinality({ i \in 1..Len(lines) : StartsWith(lines[i], <<BULLET>>) })
    IN  IF n > 0 THEN n ELSE 1

RECURSIVE SumBulletLines(_)
SumBulletLines(rows) ==
    IF Len(rows) = 0 THEN 0
    ELSE BulletLineCount(rows[1]["Incident"]) + SumBulletLines(Tail(rows))

\* C1: the Totals count of every category is the sum over the rows of the
\* category table of the number of bullet-prefixed lines of the Incident
\* cell (1 when there is none), so that an actor with k descriptions
\* contributes exactly k.
C1_TotalsCountBulletLines ==
    Built =>
      \A c \in Categories :
         /\ TotalsCount(TheTables, c) = SumBulletLines(CategoryTable(TheTables, c).rows)
         /\ TotalsCount(TheTables, c) = Len(IncidentsIn(c))

\* C2: the category-count mapping main computes with count_incidents agrees
\* with the Totals table, category by category.
C2_AppCountsAgreeWithTotals ==
    pc \in {"done", "briefed"} =>
      \A c \in Categories :
         (CHOOSE m \in counts : TRUE)[DisplayName(c)] = TotalsCount(TheTables, c)

\* the Incident cell the claim describes for a list of descriptions
ExpectedCell(descs) ==
    IF Len(descs) > 1 THEN Join(<<NL>>, BulletLines(descs)) ELSE descs[1]

\* C3: the Incident cell of an actor with several accumulated descriptions is
\* those descriptions in the combined order, each prefixed with the bullet
\* and a space and joined by newlines; with one description it is that
\* description bare.
C3_IncidentCellJoin ==
    Built =>
      \A c \in Categories :
         LET rows == CategoryTable(TheTables, c).rows
         IN  \A i \in 1..Len(rows) :
                LET descs == DescsOf(IncidentsIn(c), rows[i]["Threat Actor"])
                IN  /\ Len(descs) >= 1
                    /\ rows[i]["Incident"] = ExpectedCell(descs)
                    /\ Len(descs) = 1 => rows[i]["Incident"] = descs[1]

W3_MultiAndBare ==
    /\ Built
    /\ \E c \in Categories :
          LET rows == CategoryTable(TheTables, c).rows
          IN  /\ Len(rows) = 2
              /\ Len(DescsOf(IncidentsIn(c), rows[1]["Threat Actor"])) = 2
              /\ Len(DescsOf(IncidentsIn(c), rows[2]["Threat Actor"])) = 1
              /\ Contains(rows[1]["Incident"], <<NL, BULLET, " ">>)

\* the incidents a slide builder should recover from a category
RECURSIVE ExpectedIncidents(_, _)
ExpectedIncidents(actors, es) ==
    IF Len(actors) = 0 THEN <<>>
    ELSE PairWith(actors[1], DescsOf(es, actors[1])) \o ExpectedIncidents(Tail(actors), es)

RECURSIVE ExpectedSlides(_, _)
ExpectedSlides(actors, es) ==
    IF Len(actors) = 0 THEN <<>>
    ELSE << <<actors[1], Join(<<NL>>, BulletLines(DescsOf(es, actors[1])))>> >>
         \o ExpectedSlides(Tail(actors), es)

\* C4: the slide builders recover from every row exactly the descriptions the
\* Incident cell was built from, in order, one incident each (round trip of
\* the join of build_df with the split downstream).
C4_SlideBuilderRoundTrip ==
    /\ pc \in {"done", "briefed"} =>
         \A c \in Categories :
            (CHOOSE x \in expanded : TRUE)[DisplayName(c)]
              = ExpectedIncidents(FirstSeen(IncidentsIn(c), {}), IncidentsIn(c))
    /\ pc = "briefed" =>
         \A c \in Categories :
            (CHOOSE x \in weekly : TRUE)[DisplayName(c)]
              = ExpectedSlides(FirstSeen(IncidentsIn(c), {}), IncidentsIn(c))

\* position of an actor's row in a table, 0 when it has none
RowOf(rows, actor) ==
    IF \E i \in 1..Len(rows) : rows[i]["Threat Actor"] = actor
    THEN CHOOSE i \in 1..Len(rows) : rows[i]["Threat Actor"] = actor
    ELSE 0

\* position of an actor's first incident in a sequence of incidents
FirstAt(es, actor) == CHOOSE i \in 1..Len(es) :
    /\ es[i].actor = actor
    /\ \A j \in 1..(i - 1) : es[j].actor # actor

Actors(es) == { es[i].actor : i \in 1..Len(es) }

\* C5 as stated: whenever the first incident of A (in any category) precedes
\* the first incident of B in the combined order, the row of A precedes the
\* row of B in every table that has a row for both.
C5_OrderByFirstIncident ==
    Built =>
      \A c \in Categories :
         LET rows == CategoryTable(TheTables, c).rows
             all  == ByKey(history)
         IN  \A a, b \in Actors(all) :
                (/\ RowOf(rows, a) > 0
                 /\ RowOf(rows, b) > 0
                 /\ FirstAt(all, a) < FirstAt(all, b))
                => RowOf(rows, a) < RowOf(rows, b)

\* C5 amended: whenever the first incident of A in a category precedes the
\* first incident of B in that category in the combined order, the row of A
\* precedes the row of B in the table of that category.
C5_OrderByFirstIncidentInCategory ==
    Built =>
      \A c \in Categories :
         LET rows == CategoryTable(TheTables, c).rows
             es   == IncidentsIn(c)
         IN  \A a, b \in Actors(es) :
                /\ RowOf(rows, a) > 0
                /\ FirstAt(es, a) < FirstAt(es, b) => RowOf(rows, a) < RowOf(rows, b)

W5_TwoActorsTwoDocuments ==
    /\ Built
    /\ \E c \in Categories :
          LET es == IncidentsIn(c)
          IN  /\ Len(CategoryTable(TheTables, c).rows) = 2
              /\ Len(es) = 3
              /\ es[1].actor # es[2].actor
              /\ es[1].path # es[2].path
              /\ es[3].actor = es[1].actor

\* C6: every category table has exactly one row per distinct actor of the
\* category, in the order of first encounter, numbered 1, 2, ... without gaps.
C6_OneRowPerActor ==
    Built =>
      \A c \in Categories :
         LET rows   == CategoryTable(TheTables, c).rows
             actors == FirstSeen(IncidentsIn(c), {})
         IN  /\ Len(rows) = Len(actors)
             /\ \A i \in 1..Len(rows) :
                   /\ rows[i]["Threat Actor"] = actors[i]
                   /\ rows[i]["No."] = i

W6_MergedActor ==
    /\ Built
    /\ \E c \in Categories :
          LET es == IncidentsIn(c)
          IN  /\ Len(es) = 3
              /\ es[1].actor = es[3].actor
              /\ es[1].actor # es[2].actor
              /\ es[1].path # es[3].path
              /\ Len(CategoryTable(TheTables, c).rows) = 2
              /\ CategoryTable(TheTables, c).rows[2]["No."] = 2

\* the descriptions that are tallied: one per folded Access or Data incident
Tallied == IncidentsIn( <<"A", "c", "c", "e", "s", "s">> ) \o IncidentsIn( <<"D", "a", "t", "a">> )

RECURSIVE ExtractedSets(_)
ExtractedSets(es) ==
    IF Len(es) = 0 THEN <<>>
    ELSE <<extract_countries(es[1].desc)>> \o ExtractedSets(Tail(es))

Mentions(sets, country) == Cardinality({ i \in 1..Len(sets) : country \in sets[i] })

\* C7: the count of a country in the country-occurrence table is the number
\* of Access and Data descriptions (one per folded incident) whose extracted
\* set contains it; countries with no such description have no row; the
\* rows are in non-increasing order of count.
C7_CountryOccurrences ==
    Built =>
      LET cty  == TheTables.cty
          sets == ExtractedSets(Tallied)
      IN  /\ \A i, j \in 1..Len(cty) : i # j => cty[i][1] # cty[j][1]
          /\ \A i \in 1..Len(cty) :
                /\ cty[i][2] >= 1
                /\ cty[i][2] = Mentions(sets, cty[i][1])
          /\ \A country \in UNION Range(sets) :
                \E i \in 1..Len(cty) : cty[i][1] = country
          /\ \A i \in 1..(Len(cty) - 1) : cty[i][2] >= cty[i + 1][2]

W7_SortReorders ==
    /\ Built
    /\ Len(TheTables.cty) = 2
    /\ TheTables.cty[1][2] = 2
    /\ TheTables.cty[2][2] = 1
    /\ Len(Tallied) = 3
    /\ TheTables.cty[2][1] \in extract_countries(Tallied[1].desc)

IsStrictlySorted(s) == \A i \in 1..(Len(s) - 1) : StrLess(s[i], s[i + 1])

\* C8: the Country cell of every Access and Data row is the comma-joined,
\* sorted, duplicate-free union of the countries of the descriptions of the
\* actor in the category, and is "Unknown" exactly when the union is empty;
\* the Malware and Other tables have no Country column.
C8_CountryCell ==
    Built =>
      /\ \A c \in { <<"A", "c", "c", "e", "s", "s">>, <<"D", "a", "t", "a">> } :
            LET rows == CategoryTable(TheTables, c).rows
            IN  \A i \in 1..Len(rows) :
                   LET union == UnionCountries(DescsOf(IncidentsIn(c), rows[i]["Threat Actor"]))
                   IN  /\ (rows[i]["Country"] = <<"U", "n", "k", "n", "o", "w", "n">>) <=> (union = {})
                       /\ union # {} =>
                            \E s \in Orders(union) :
                               /\ IsStrictlySorted(s)
                               /\ rows[i]["Country"] = Join(<<",", " ">>, s)
      /\ \A c \in { <<"M", "a", "l", "w", "a", "r", "e">>, <<"O", "t", "h", "e", "r">> } :
            "Country" \notin CategoryTable(TheTables, c).columns

W8_UnionAndUnknown ==
    /\ Built
    /\ Len(TheTables.dat.rows) = 1
    /\ TheTables.dat.rows[1]["Country"] = <<"G", "e", "r", "m", "a", "n", "y", ",", " ", "U", "n", "i", "t", "e", "d", " ", "S", "t", "a", "t", "e", "s">>
    /\ Len(IncidentsIn( <<"D", "a", "t", "a">> )) = 2
    /\ Len(TheTables.mal.rows) = 1

\* key occurs in s, ignoring case, with no word character next to it
OccursAsWord(s, key) ==
    \E p \in 1..(Len(s) - Len(key) + 1) :
       /\ MatchAtCI(s, p, key)
       /\ p = 1 \/ s[p - 1] \notin WordChars
       /\ p + Len(key) - 1 = Len(s) \/ s[p + Len(key)] \notin WordChars

\* C9: extract_countries returns exactly the canonical names of the aliases
\* that occur in the text as a whole word, ignoring case.
C9_ExtractWholeWordAliases ==
    pc = "returned" =>
      found = { COUNTRY_MAP[j][2] :
                  j \in { k \in DOMAIN COUNTRY_MAP : OccursAsWord(text, COUNTRY_MAP[k][1]) } }

AllIncidents == UNION { Range(data[c]) : c \in Categories }

WellFormed(itm) ==
    /\ Len(itm.actor) > 0
    /\ Len(itm.desc) > 0
    /\ itm.desc[1] \notin SpaceChars
    /\ itm.desc[Len(itm.desc)] \in {".", "!", "?"}
    /\ \A i \in 1..(Len(itm.desc) - 1) :
          ~(itm.desc[i] \in SpaceChars /\ itm.desc[i + 1] \in SpaceChars)

\* the description of the pending incident after the " ." repair, the
\* stripping of leading numbering and the cleaning
PendingDescription ==
    clean_description(StripNumbering(
        Strip(Replace(Join(<<" ">>, current_desc_words), <<" ", ".">>, <<".">>))))

\* C10: every incident of a parse result has a non-empty actor and a
\* non-empty description without leading or trailing whitespace, without
\* whitespace runs and ending in '.', '!' or '?'; a pending incident with an
\* empty actor or an empty cleaned description adds nothing to any list.
C10_IncidentsWellFormed ==
    /\ [](\A itm \in AllIncidents : WellFormed(itm))
    /\ [][(Len(current_actor_parts) = 0 \/ Len(PendingDescription) = 0)
            => data' = data]_vars

W10_CleanedAndSaved ==
    /\ pc = "parsed"
    /\ \E i \in 1..Len(words) : words[i].text = <<"E", "x", "p", "l", "o", "i", "t">>
    /\ \E itm \in AllIncidents : itm.desc = <<"s", "o", "l", "d", " ", "s", "o", "l", "d", ".">>

\* ------------------------------------------------------------------------
\* The scan of one document: categories, range, segmentation
\* ------------------------------------------------------------------------
\* the category a section header stands for
HeaderName(h) ==
    CASE h = <<"A", "C", "C", "E", "S", "S">> -> <<"A", "c", "c", "e", "s", "s">>
      [] h = <<"D", "A", "T", "A">> -> <<"D", "a", "t", "a">>
      [] h = <<"M", "A", "L", "W", "A", "R", "E">> -> <<"M", "a", "l", "w", "a", "r", "e">>
      [] h = <<"O", "T", "H", "E", "R">> -> <<"O", "t", "h", "e", "r">>
      [] h = <<"V", "U", "L", "N", "E", "R", "A", "B", "I", "L", "I", "T", "Y">> -> <<"O", "t", "h", "e", "r">>

\* the category in force before word k: that of the most recent bold section
\* header among the words lo..k-1, Other when there is none
CategoryInForce(ws, lo, k) ==
    LET hs == { j \in lo..(k - 1) : IsHeader(ws[j]) }
    IN  IF hs = {} THEN <<"O", "t", "h", "e", "r">>
        ELSE HeaderName(Upper(ws[CHOOSE j \in hs : \A i \in hs : i <= j].text))

\* the words before idx that belong to actor names
ActorWordsBefore ==
    { j \in StartIdx(words)..(idx - 1) : ~IsHeader(words[j]) /\ IsActorWord(words[j]) }

\* the index of the first word of the pending actor name
ActorBegan ==
    CHOOSE k \in ActorWordsBefore :
        Cardinality({ j \in ActorWordsBefore : j >= k }) = Len(current_actor_parts)

\* the scan loop is about to end, or to read a section header
AtFlushPoint ==
    /\ pc = "scan"
    /\ IF idx > Len(words) THEN TRUE
       ELSE AtEndMarker(words, idx) \/ IsHeader(words[idx])

\* C11: the current category is the one of the most recent section header
\* of the scan range (Other when there is none); every incident added to the
\* result is added, once, to the category that was in force when the first
\* word of its actor was read; a pending incident with an actor and a
\* non-empty cleaned description is added to that category when a section
\* header is read or the scan range ends.
C11_FiledUnderCategoryInForce ==
    /\ [](pc = "scan" =>
            current_category = CategoryInForce(words, StartIdx(words), idx))
    /\ [][\A c \in Categories :
            data'[c] # data[c] =>
              /\ Len(current_actor_parts) > 0
              /\ c = CategoryInForce(words, StartIdx(words), ActorBegan)
              /\ Len(data'[c]) = Len(data[c]) + 1
              /\ SubSeq(data'[c], 1, Len(data[c])) = data[c]
              /\ data'[c][Len(data'[c])].actor = Join(<<" ">>, current_actor_parts)
              /\ \A d \in Categories \ {c} : data'[d] = data[d]]_vars
    /\ [][(AtFlushPoint /\ Len(current_actor_parts) > 0 /\ Len(PendingDescription) > 0)
            => LET c == CategoryInForce(words, StartIdx(words), ActorBegan)
               IN  /\ Len(data'[c]) = Len(data[c]) + 1
                   /\ data'[c][Len(data'[c])].desc = PendingDescription]_vars

\* a section header flushed the pending incident into the old category
W11_FlushedBeforeSwitch ==
    /\ pc = "scan"
    /\ idx = 5
    /\ words[1].text = <<"D", "A", "T", "A">>
    /\ words[4].text = <<"V", "U", "L", "N", "E", "R", "A", "B", "I", "L", "I", "T", "Y">>
    /\ current_category = <<"O", "t", "h", "e", "r">>
    /\ data[ <<"D", "a", "t", "a">> ] = << [actor |-> <<"A", "C", "M", "E">>, desc |-> <<"s", "o", "l", "d", ".">>] >>
    /\ data[ <<"O", "t", "h", "e", "r">> ] = <<>>

\* the positions of a THREAT token immediately followed by the token second
ThreatPairs(ws, second) ==
    { i \in 1..(Len(ws) - 1) :
        Upper(ws[i].text) = <<"T", "H", "R", "E", "A", "T">> /\ Upper(ws[i + 1].text) = second }

Least(S) == CHOOSE i \in S : \A j \in S : i <= j

\* first index of the scan range: after the first THREAT DETAIL pair, else 1
RangeStart(ws) ==
    IF ThreatPairs(ws, <<"D", "E", "T", "A", "I", "L">> ) = {} THEN 1
    ELSE Least(ThreatPairs(ws, <<"D", "E", "T", "A", "I", "L">> )) + 2

\* the end boundary: the first THREAT ACTIVITY pair at or after the start,
\* else the position after the last word
RangeEnd(ws) ==
    LET ends == { i \in ThreatPairs(ws, <<"A", "C", "T", "I", "V", "I", "T", "Y">> ) : i >= RangeStart(ws) }
    IN  IF ends = {} THEN Len(ws) + 1 ELSE Least(ends)

ScanRange(ws) == SubSeq(ws, RangeStart(ws), RangeEnd(ws) - 1)

\* the loop body applied to every word of ws, without any marker test
RECURSIVE ScanWords(_, _)
ScanWords(st, ws) ==
    IF Len(ws) = 0 THEN st ELSE ScanWords(ScanWord(st, Head(ws)), Tail(ws))

RangeTexts(ws) == { ScanRange(ws)[j].text : j \in 1..Len(ScanRange(ws)) }

\* C12: the scan index stays between the token after the first THREAT DETAIL
\* pair (1 without a pair) and the first THREAT ACTIVITY pair at or after it
\* (the end of the stream without one) and stops there; the result is the
\* one obtained from the words of that range alone: every actor is made of
\* words of the range, every category other than Other comes from a header of
\* the range; a stream without markers is scanned from its first to its last
\* word.
C12_OnlyScanRangeContributes ==
    /\ [](pc = "scan" => RangeStart(words) <= idx /\ idx <= RangeEnd(words))
    /\ [](pc = "parsed" =>
            /\ idx = RangeEnd(words)
            /\ data = FinalFlush(ScanWords(InitScan, ScanRange(words)))
            /\ \A c \in Categories : \A n \in 1..Len(data[c]) :
                  /\ Range(Split(data[c][n].actor, " ")) \subseteq RangeTexts(words)
                  /\ c = <<"O", "t", "h", "e", "r">> \/
                       \E j \in RangeStart(words)..(RangeEnd(words) - 1) :
                          IsHeader(words[j]) /\ HeaderName(Upper(words[j].text)) = c)
    /\ [](pc = "parsed" /\ ThreatPairs(words, <<"D", "E", "T", "A", "I", "L">> ) = {}
               /\ ThreatPairs(words, <<"A", "C", "T", "I", "V", "I", "T", "Y">> ) = {}
            => data = FinalFlush(ScanWords(InitScan, words)))

\* an actor and its description stand before the start marker and are not read
W12_BeforeStartIgnored ==
    /\ pc = "parsed"
    /\ Len(words) = 4
    /\ words[1] = Bold( <<"A", "C", "M", "E">> )
    /\ words[2] = Regular( <<"s", "o", "l", "d">> )
    /\ RangeStart(words) = 5
    /\ data = EmptyData

\* ------------------------------------------------------------------------
\* Failure of the text extraction
\* ------------------------------------------------------------------------
NoOutput ==
    /\ tables = {}
    /\ counts = {}
    /\ expanded = {}
    /\ weekly = {}

\* C13: when the extraction of a document fails, whatever its position in
\* the sorted list, the run ends there with the status Error and without
\* tables, counts or slide contents, also when documents before it were
\* parsed; tables exist only when every document of the list was folded.
C13_AllOrNothing ==
    /\ [](pc = "failed" => status = "Error" /\ NoOutput)
    /\ [](pc = "fold" => NoOutput)
    /\ [](tables # {} => folded = Len(sorted_paths) /\ pc # "failed")
    /\ [][pc # "failed"]_vars

\* the second of three documents fails after the first one gave an incident
W13_FailedAfterParsedDocument ==
    /\ pc = "failed"
    /\ Len(sorted_paths) = 3
    /\ folded = 1
    /\ Len(history) > 0
    /\ storage # EmptyStorage

\* ------------------------------------------------------------------------
\* Text cleaning
\* ------------------------------------------------------------------------
Cleaned(s) ==
    /\ \A i \in 1..Len(sources) : ~OccursAsWord(s, sources[i])
    /\ \A i \in 1..Len(s) : s[i] \in SpaceChars => s[i] = " "
    /\ \A i \in 1..(Len(s) - 1) : ~(s[i] = " " /\ s[i + 1] = " ")
    /\ Len(s) > 0 => /\ s[1] # " "
                     /\ s[Len(s)] \in {".", "!", "?"}

\* C14: cleaning the result of clean_description again returns it unchanged;
\* the result contains no source name as a whole word (in any case), no
\* whitespace other than single spaces between words, and ends in '.', '!'
\* or '?' unless it is empty; the empty string is cleaned to the empty string.
C14_CleanIdempotent ==
    /\ pc = "recleaned" => found[2] = found[1]
    /\ pc \in {"cleaned", "recleaned"} =>
          /\ Cleaned(found[1])
          /\ text = <<>> => found[1] = <<>>

\* a source name and a whitespace run were removed and the full stop added
W14_RemovedCollapsedTerminated ==
    /\ pc = "recleaned"
    /\ text = <<"a">> \o <<NL>> \o <<"x", "s", "s">>
    /\ found = << <<"a", ".">>, <<"a", ".">> >>

\* ------------------------------------------------------------------------
\* Actor names and descriptions in the scan
\* ------------------------------------------------------------------------
\* a bold token that is no section header, no ignore word and not a number
ActorToken(w) ==
    /\ is_bold(w)
    /\ Upper(w.text) \notin SECTION_HEADERS
    /\ Upper(w.text) \notin IGNORE_WORDS
    /\ \E i \in 1..Len(w.text) : w.text[i] \notin DigitChars

\* the pending incident, as it is saved
PendingIncident ==
    [actor |-> Join(<<" ">>, current_actor_parts), desc |-> PendingDescription]

\* the result after the pending incident was saved under the current category
WithPending ==
    IF Len(PendingDescription) > 0
    THEN [data EXCEPT ![current_category] = Append(@, PendingIncident)]
    ELSE data

\* C15: when the scan reads an actor token while the description buffer is
\* empty, the token is appended to the actor buffer and nothing is saved;
\* when it reads one while the description buffer is non-empty, the pending
\* incident is saved with the old actor (its tokens joined by single spaces,
\* in order) and the old description, and the actor buffer then holds
\* exactly this token and the description buffer is empty. Every word of the
\* description buffer is the text of a word already read that is not an
\* actor token.
C15_ActorSegmentation ==
    /\ [][(InScan /\ ActorToken(words[idx])) =>
            /\ current_desc_words' = <<>>
            /\ current_category' = current_category
            /\ IF Len(current_desc_words) = 0
               THEN /\ current_actor_parts' = Append(current_actor_parts, words[idx].text)
                    /\ data' = data
               ELSE /\ current_actor_parts' = << words[idx].text >>
                    /\ Len(current_actor_parts) > 0
                    /\ data' = WithPending]_vars
    /\ [](\A n \in 1..Len(current_desc_words) :
            \E j \in StartIdx(words)..(idx - 1) :
               /\ words[j].text = current_desc_words[n]
               /\ ~ActorToken(words[j]))

\* a two-word actor name was saved when the next actor name began
W15_TwoWordActorFlushed ==
    /\ pc = "scan"
    /\ idx = 5
    /\ words[4] = Bold( <<"B", "o", "b">> )
    /\ data[ <<"O", "t", "h", "e", "r">> ] = << [actor |-> <<"A", "C", "M", "E", " ", "B", "o", "b">>, desc |-> <<"s", "o", "l", "d", ".">>] >>
    /\ current_actor_parts = << <<"B", "o", "b">> >>
    /\ current_desc_words = <<>>

\* a token that may belong to a description: not bold, or a bold ignore
\* word, or a bold number
TextToken(w) ==
    \/ ~is_bold(w)
    \/ Upper(w.text) \in IGNORE_WORDS
    \/ Len(w.text) > 0 /\ \A i \in 1..Len(w.text) : w.text[i] \in DigitChars

Glyphs == { <<BULLET>>, <<ENDASH>> }

\* C16: at every step of the scan a non-empty description buffer comes with
\* a non-empty actor buffer; a token that is not bold, a bold ignore word or
\* a bold number (and no section header) is appended to the description
\* buffer exactly when the actor buffer is non-empty and the token is not a
\* bare bullet or dash, and otherwise changes nothing; an incident is only
\* ever saved while an actor is pending.
C16_DescriptionNeedsActor ==
    /\ [](Len(current_desc_words) > 0 => Len(current_actor_parts) > 0)
    /\ [][(InScan /\ ~IsHeader(words[idx]) /\ TextToken(words[idx])) =>
            /\ data' = data
            /\ current_actor_parts' = current_actor_parts
            /\ current_category' = current_category
            /\ current_desc_words' =
                  IF Len(current_actor_parts) > 0 /\ words[idx].text \notin Glyphs
                  THEN Append(current_desc_words, words[idx].text)
                  ELSE current_desc_words]_vars
    /\ [][data' # data => Len(current_actor_parts) > 0]_vars

\* a word before the first actor was dropped; a bold number and a bold
\* ignore word after the actor were kept
W16_DroppedBeforeActorKeptAfter ==
    /\ pc = "scan"
    /\ idx = 5
    /\ words = << Regular( <<"s", "o", "l", "d">> ), Bold( <<"A", "C", "M", "E">> ), Bold( <<"7">> ), Bold( <<"P", "A", "G", "E">> ) >>
    /\ current_actor_parts = << <<"A", "C", "M", "E">> >>
    /\ current_desc_words = << <<"7">>, <<"P", "A", "G", "E">> >>
    /\ data = EmptyData

\* ------------------------------------------------------------------------
\* The aggregate store
\* ------------------------------------------------------------------------
RECURSIVE SumDescs(_)
SumDescs(inc) ==
    IF Len(inc) = 0 THEN 0 ELSE Len(inc[1][2]) + SumDescs(Tail(inc))

IsPrefix(s, t) == Len(s) <= Len(t) /\ SubSeq(t, 1, Len(s)) = s

StoreConsistent(store) ==
    \A c \in Categories :
       /\ \A i \in 1..Len(store[c].inc) : Len(store[c].inc[i][2]) >= 1
       /\ \A i, j \in 1..Len(store[c].inc) :
             store[c].inc[i][1] = store[c].inc[j][1] => i = j
       /\ Len(store[c].cty) = SumDescs(store[c].inc)
       /\ \A i \in 1..Len(store[c].cty) : store[c].cty[i][1] = c

\* C17: after every number of folded documents, in every category each actor
\* of the ordered mapping has at least one description and appears once, the
\* flat list has as many entries as the per-actor lists have descriptions
\* together, and each of its entries carries the category; a step never
\* removes or reorders the actors, the descriptions of an actor or the
\* entries of the flat list.
C17_StoreInvariant ==
    /\ [] StoreConsistent(storage)
    /\ [][\A c \in Categories :
            /\ IsPrefix(storage[c].cty, storage'[c].cty)
            /\ Len(storage[c].inc) <= Len(storage'[c].inc)
            /\ \A i \in 1..Len(storage[c].inc) :
                  /\ storage'[c].inc[i][1] = storage[c].inc[i][1]
                  /\ IsPrefix(storage[c].inc[i][2], storage'[c].inc[i][2])]_vars

\* three documents folded: an actor with two descriptions, then a second actor
W17_ThreeDocumentsFolded ==
    /\ pc = "fold"
    /\ folded = 3
    /\ Len(storage[ <<"O", "t", "h", "e", "r">> ].inc) = 2
    /\ Len(storage[ <<"O", "t", "h", "e", "r">> ].inc[1][2]) = 2
    /\ Len(storage[ <<"O", "t", "h", "e", "r">> ].cty) = 3


====
